---- MODULE Spec2Model ----
(***************************************************************************)
(* any2srt: the caption converter's fallback orchestrator                  *)
(* (convert_to_srt), its output validator (is_srt_valid), its timestamp    *)
(* normaliser and its per-format parsers, as a state machine over one      *)
(* conversion of one input file; and batch_convert_captions, the loop over *)
(* the files of a directory.                                               *)
(*                                                                         *)
(* Text is modelled as TLA+ strings: a file's content is one string with   *)
(* "\n" between its lines, a character is a one-character string, and the  *)
(* regular expressions of the source are sequences of atoms, matched with  *)
(* Python's priorities (leftmost start, greedy quantifiers, ordered        *)
(* alternatives).                                                          *)
(*                                                                         *)
(* Loops of the source are written so that their evaluation stays shallow: *)
(* a loop over positions is a set of positions, a loop that carries a      *)
(* state is Chain, which runs it by halves.                                *)
(***************************************************************************)
EXTENDS Integers, Sequences, FiniteSets, TLC

VARIABLES
    ext,      \* lower-cased extension of the input path
    inp,      \* the input file
    same,     \* the output path is the input path (.srt input, no output given)
    out,      \* the file at the output path
    temp,     \* the RTF parser's scratch file (output path + ".temp.txt") exists
    pc,       \* position in convert_to_srt
    result,   \* the local variable `result`
    ret,      \* the value convert_to_srt returned ("none" before it returns)
    idx,      \* position in the fallback loop over `converters`
    trace,    \* history: the stages attempted so far, with their outcome
    doc,      \* history: the entries behind the last write to the output file
    batch     \* the directories of a run of batch_convert_captions

vars == <<ext, inp, same, out, temp, pc, result, ret, idx, trace, doc, batch>>

----------------------------------------------------------------------------
(* Loops and sets of positions.                                            *)

\* <<x_1, ..., x_n>> with x_k = Op(k, x_(k-1)) and x_0 = x0, n >= 1
Chain(Op(_, _), n, x0) ==
    LET RECURSIVE C(_, _, _)
        RECURSIVE R(_, _, _)
        C(lo, hi, a) ==
            IF lo = hi THEN <<Op(lo, a)>>
            ELSE R((lo + hi) \div 2 + 1, hi, C(lo, (lo + hi) \div 2, a))
        R(lo, hi, l) == IF Len(l) = 0 THEN l ELSE l \o C(lo, hi, l[Len(l)])
    IN  C(1, n, x0)

\* the state after turns 1..n of a loop whose k-th turn is Op(k, _), from x0
Loop(Op(_, _), n, x0) == IF n = 0 THEN x0 ELSE Chain(Op, n, x0)[n]

\* the state after n turns of a loop whose turn is Step, from state x0
Iterate(Step(_), n, x0) == Loop(LAMBDA k, a : Step(a), n, x0)

Min(a, b) == IF a < b THEN a ELSE b

Max(a, b) == IF a < b THEN b ELSE a

MaxOf(S) == CHOOSE x \in S : \A y \in S : y <= x

MinOf(S) == CHOOSE x \in S : \A y \in S : x <= y

\* the numbers of P in increasing order
Sorted(P) ==
    LET ranked == {<<Cardinality({y \in P : y <= x}), x>> : x \in P}
    IN  [k \in 1..Cardinality(P) |-> (CHOOSE r \in ranked : r[1] = k)[2]]

----------------------------------------------------------------------------
(* Characters and Python's string methods.                                 *)

Ch(s, i) == SubSeq(s, i, i)

Digits == {"0", "1", "2", "3", "4", "5", "6", "7", "8", "9"}

Upper == {"A", "B", "C", "D", "E", "F", "G", "H", "I", "J", "K", "L", "M",
          "N", "O", "P", "Q", "R", "S", "T", "U", "V", "W", "X", "Y", "Z"}

Lower == {"a", "b", "c", "d", "e", "f", "g", "h", "i", "j", "k", "l", "m",
          "n", "o", "p", "q", "r", "s", "t", "u", "v", "w", "x", "y", "z"}

\* str.isspace() on the characters the inputs are drawn from
White == {" ", "\n"}

Punct == {":", ",", ".", "-", ">", "<", "/", "=", "\"", "!", "?", "[", "]", "(", ")"}

Alphabet == Digits \cup Upper \cup Lower \cup White \cup Punct

\* the first position in lo..hi of s that holds no character of cs, hi + 1
\* when there is none (by halves)
RECURSIVE FirstNotIn(_, _, _, _)
FirstNotIn(s, cs, lo, hi) ==
    IF lo > hi THEN lo
    ELSE IF lo = hi THEN (IF Ch(s, lo) \in cs THEN lo + 1 ELSE lo)
    ELSE IF \A t \in lo..((lo + hi) \div 2) : Ch(s, t) \in cs
         THEN FirstNotIn(s, cs, (lo + hi) \div 2 + 1, hi)
         ELSE FirstNotIn(s, cs, lo, (lo + hi) \div 2)

\* number of characters of cs that s holds in a row from position i on: the
\* short runs are counted outright
Run(s, i, cs) ==
    LET Far(n) == IF n < 4 THEN n ELSE FirstNotIn(s, cs, i + 4, Len(s)) - i
    IN  Far(Cardinality({j \in i..Min(Len(s), i + 3) : \A t \in i..j : Ch(s, t) \in cs}))

\* number of characters of cs that s holds in a row up to position i
RECURSIVE RunBack(_, _, _)
RunBack(s, i, cs) ==
    IF i < 1 \/ Ch(s, i) \notin cs THEN 0 ELSE 1 + RunBack(s, i - 1, cs)

\* s.strip()
Strip(s) ==
    LET From(a) == IF a = Len(s) THEN ""
                   ELSE SubSeq(s, a + 1, Len(s) - RunBack(s, Len(s), White))
    IN  From(Run(s, 1, White))

\* s.startswith(w) at offset i - 1
StartsAt(s, i, w) == i + Len(w) - 1 <= Len(s) /\ SubSeq(s, i, i + Len(w) - 1) = w

\* w in s
Contains(s, w) == \E i \in 1..(Len(s) + 1) : StartsAt(s, i, w)

\* s.count(c) for a character c
Count(s, c) == Cardinality({i \in 1..Len(s) : Ch(s, i) = c})

\* the parts of s between the positions cut (in increasing order)
Parts(s, cut) ==
    [k \in 1..(Len(cut) + 1) |->
        SubSeq(s, IF k = 1 THEN 1 ELSE cut[k - 1] + 1,
                  IF k > Len(cut) THEN Len(s) ELSE cut[k] - 1)]

\* re.split('[cs]', s), and s.split(c) for cs = {c}: always at least one part
Split(s, cs) == Parts(s, Sorted({i \in 1..Len(s) : Ch(s, i) \in cs}))

\* sep.join(parts[lo..hi]) (by halves)
RECURSIVE JoinRange(_, _, _, _)
JoinRange(parts, sep, lo, hi) ==
    IF lo > hi THEN ""
    ELSE IF lo = hi THEN parts[lo]
    ELSE JoinRange(parts, sep, lo, (lo + hi) \div 2) \o sep
         \o JoinRange(parts, sep, (lo + hi) \div 2 + 1, hi)

\* sep.join(parts)
Join(parts, sep) == JoinRange(parts, sep, 1, Len(parts))

\* s[lo..hi].replace(a, b) for characters a, b (by halves)
RECURSIVE ReplaceRange(_, _, _, _, _)
ReplaceRange(s, a, b, lo, hi) ==
    IF lo > hi THEN ""
    ELSE IF lo = hi THEN (IF Ch(s, lo) = a THEN b ELSE Ch(s, lo))
    ELSE ReplaceRange(s, a, b, lo, (lo + hi) \div 2)
         \o ReplaceRange(s, a, b, (lo + hi) \div 2 + 1, hi)

\* s.replace(a, b)
Replace(s, a, b) == ReplaceRange(s, a, b, 1, Len(s))

\* s.split(): the words between runs of whitespace
Words(s) ==
    LET Between(first, last) == [k \in 1..Len(first) |-> SubSeq(s, first[k], last[k])]
    IN  Between(Sorted({i \in 1..Len(s) : /\ Ch(s, i) \notin White
                                          /\ (i = 1 \/ Ch(s, i - 1) \in White)}),
                Sorted({i \in 1..Len(s) : /\ Ch(s, i) \notin White
                                          /\ (i = Len(s) \/ Ch(s, i + 1) \in White)}))

DigitVal(c) == CHOOSE d \in 0..9 : Ch("0123456789", d + 1) = c

\* int(s) for a string of digits; int("") raises ValueError (see CanInt)
RECURSIVE ToInt(_)
ToInt(s) ==
    IF Len(s) = 0 THEN 0
    ELSE 10 * ToInt(SubSeq(s, 1, Len(s) - 1)) + DigitVal(Ch(s, Len(s)))

CanInt(s) == s # "" /\ \A i \in 1..Len(s) : Ch(s, i) \in Digits

\* str(n), n >= 0
RECURSIVE IntToStr(_)
IntToStr(n) ==
    IF n < 10 THEN Ch("0123456789", n + 1)
    ELSE IntToStr(n \div 10) \o Ch("0123456789", (n % 10) + 1)

\* f"{n:0wd}"
RECURSIVE ZeroPad(_, _)
ZeroPad(s, w) == IF Len(s) >= w THEN s ELSE ZeroPad("0" \o s, w)

Fmt(n, w) == ZeroPad(IntToStr(n), w)

\* millis.ljust(3, '0')[:3]
LJust3(s) == SubSeq(s \o "000", 1, 3)

----------------------------------------------------------------------------
(* Regular expressions.  A pattern is a sequence of atoms:                 *)
(*   Cls(cs, lo, hi)  lo to hi characters of cs, greedy (hi = -1: no limit)*)
(*   Alt(ws)          one of the literal words ws, tried in order          *)
(*   End              $                                                    *)
(* A match is <<e_0, e_1, ..., e_n>>: the position it starts at and the    *)
(* position after each atom, or NoMatch.  Among the ways of matching, a    *)
(* backtracking matcher finds first the one that starts leftmost and then  *)
(* gives each atom in turn as many characters as a complete match allows   *)
(* (for Alt this is the order of the words: in every Alt of the source a   *)
(* word that another word starts with comes after that word, so that the   *)
(* first word that matches is the longest that matches).                   *)

Cls(cs, lo, hi) == [k |-> "cls", cs |-> cs, lo |-> lo, hi |-> hi, ws |-> <<>>]

Alt(ws) == [k |-> "alt", cs |-> {}, lo |-> 0, hi |-> 0, ws |-> ws]

End == [k |-> "end", cs |-> {}, lo |-> 0, hi |-> 0, ws |-> <<>>]

Lit(w) == Alt(<<w>>)

NoMatch == <<-1>>

Capped(n, hi) == IF hi < 0 THEN n ELSE Min(n, hi)

\* the positions atom a can end at when it starts at position i of s
Ends(a, s, i) ==
    IF a.k = "cls"
    THEN IF a.hi = 1
         THEN {i + c : c \in a.lo..(IF i <= Len(s) /\ Ch(s, i) \in a.cs THEN 1 ELSE 0)}
         ELSE {i + c : c \in a.lo..Capped(Run(s, i, a.cs), a.hi)}
    ELSE IF a.k = "alt"
    THEN {i + Len(a.ws[j]) : j \in {j \in 1..Len(a.ws) : StartsAt(s, i, a.ws[j])}}
    ELSE IF i = Len(s) + 1 THEN {i} ELSE {}

\* the positions where atoms 1..k of p can end, for k = 1..Len(p), when the
\* match starts at a position of from
Reach(p, s, from) == Chain(LAMBDA k, I : UNION {Ends(p[k], s, i) : i \in I}, Len(p), from)

\* of these positions (reach[k + 1]: after atom k), the ones a complete match
\* goes through: for k = Len(p) - 1, ..., 0
Live(p, s, reach) ==
    Chain(LAMBDA j, G : {i \in reach[Len(p) - j + 1] : Ends(p[Len(p) - j + 1], s, i) \cap G # {}},
          Len(p), reach[Len(p) + 1])

\* the match that starts at the leftmost of the positions live[Len(p)] and
\* gives each atom in turn the most (live[Len(p) - k]: after atom k)
Greedy(p, s, live, last) ==
    LET At(k) == IF k = Len(p) THEN last ELSE live[Len(p) - k]
        From(e0) == <<e0>> \o Chain(LAMBDA k, e : MaxOf(Ends(p[k], s, e) \cap At(k)), Len(p), e0)
    IN  From(MinOf(live[Len(p)]))

\* the first match of p in s that starts at a position of from
MatchFrom(p, s, from) ==
    LET Pruned(reach) ==
            IF reach[Len(p) + 1] = {} THEN NoMatch
            ELSE Greedy(p, s, Live(p, s, reach), reach[Len(p) + 1])
    IN  Pruned(<<from>> \o Reach(p, s, from))

\* re.match(p, s)
ReMatch(p, s) == MatchFrom(p, s, {1})

\* re.search(p, s) from position i on
SearchFrom(p, s, i) == MatchFrom(p, s, i..(Len(s) + 1))

\* re.search(p, s)
ReSearch(p, s) == SearchFrom(p, s, 1)

Found(m) == m # NoMatch

\* the text atoms a..b of match m matched (a capture group)
Group(s, m, a, b) == SubSeq(s, m[a], m[b + 1] - 1)

\* m.start(), m.end()
MatchStart(m) == m[1]

MatchEnd(m) == m[Len(m)]

----------------------------------------------------------------------------
(* Files.                                                                  *)

NoFile == [exists |-> FALSE, data |-> ""]

File(s) == [exists |-> TRUE, data |-> s]

----------------------------------------------------------------------------
(* Caption entries as the parsers append them to srt_content, and files.   *)

\* what one emitted entry appends to srt_content
Render(e) == <<e.n, e.start \o " --> " \o e.end>> \o e.text \o <<"">>

\* srt_content after entries lo..hi were emitted (by halves)
RECURSIVE SrtRange(_, _, _)
SrtRange(entries, lo, hi) ==
    IF lo > hi THEN <<>>
    ELSE IF lo = hi THEN Render(entries[lo])
    ELSE SrtRange(entries, lo, (lo + hi) \div 2)
         \o SrtRange(entries, (lo + hi) \div 2 + 1, hi)

SrtContent(entries) == SrtRange(entries, 1, Len(entries))

\* f.write('\n'.join(srt_content))
Written(entries) == File(Join(SrtContent(entries), "\n"))

Entry(counter, start_time, end_time, subtitle_lines) ==
    [n |-> IntToStr(counter), start |-> start_time, end |-> end_time,
     text |-> subtitle_lines]

\* f.readlines(), without the line ends
ReadLines(data) ==
    LET Whole(parts) ==
            IF parts[Len(parts)] = "" THEN SubSeq(parts, 1, Len(parts) - 1) ELSE parts
    IN  Whole(Split(data, {"\n"}))

\* what a parser did: st is "ok" (returned True), "false" (returned False) or
\* "raise" (an exception left it); wrote: it wrote the output file, from
\* entries; scratch: it left its scratch file behind
Outcome(st, wrote, entries, scratch) ==
    [st |-> st, wrote |-> wrote, entries |-> entries, scratch |-> scratch]

Raised == Outcome("raise", FALSE, <<>>, FALSE)

\* the state of a parser's loop over the lines: the next line, the counter,
\* the entries emitted, and ok FALSE once an exception has left the loop
Scan(i, counter, entries, ok) == [i |-> i, counter |-> counter, entries |-> entries, ok |-> ok]

\* a variant of Emit that counts the entries without text too
EmitCounting(st, next, start_time, end_time, subtitle_lines) ==
    IF subtitle_lines # <<>>
    THEN Scan(next, st.counter + 1,
              Append(st.entries, Entry(st.counter, start_time, end_time, subtitle_lines)),
              TRUE)
    ELSE Scan(next, st.counter + 1, st.entries, TRUE)

\* an entry is emitted when it has text (`if subtitle_lines:`), and the loop
\* goes on at line next either way
Emit(st, next, start_time, end_time, subtitle_lines) ==
    IF subtitle_lines # <<>>
    THEN Scan(next, st.counter + 1,
              Append(st.entries, Entry(st.counter, start_time, end_time, subtitle_lines)),
              TRUE)
    ELSE Scan(next, st.counter, st.entries, TRUE)

\* the same after the lines of text were collected, c.subtitle_lines up to
\* line c.i: without text the loop goes on skip lines further
Collected(st, start_time, end_time, c, skip) ==
    Emit(st, IF c.subtitle_lines # <<>> THEN c.i ELSE c.i + skip,
         start_time, end_time, c.subtitle_lines)

----------------------------------------------------------------------------
(* normalize_timestamp                                                     *)

\* [ok |-> FALSE]: int() raised ValueError; otherwise s is the value returned
Norm(ok, s) == [ok |-> ok, s |-> s]

\* lines 453-481 after the dots were replaced: parts is re.split('[:,]', timestamp)
Normalized(timestamp, parts) ==
    IF Len(parts) = 1
    THEN IF CanInt(parts[1])
         THEN Norm(TRUE, "00:00:" \o Fmt(ToInt(parts[1]), 2) \o ",000")
         ELSE Norm(FALSE, "")
    ELSE IF Len(parts) = 2
    THEN IF Contains(timestamp, ",")
         THEN IF CanInt(parts[1])
              THEN Norm(TRUE, "00:00:" \o Fmt(ToInt(parts[1]), 2) \o ","
                              \o LJust3(parts[2]))
              ELSE Norm(FALSE, "")
         ELSE IF CanInt(parts[1]) /\ CanInt(parts[2])
              THEN Norm(TRUE, "00:" \o Fmt(ToInt(parts[1]), 2) \o ":"
                              \o Fmt(ToInt(parts[2]), 2) \o ",000")
              ELSE Norm(FALSE, "")
    ELSE IF Len(parts) = 3
    THEN IF Contains(timestamp, ",")
         THEN IF CanInt(parts[1]) /\ CanInt(parts[2])
              THEN Norm(TRUE, "00:" \o Fmt(ToInt(parts[1]), 2) \o ":"
                              \o Fmt(ToInt(parts[2]), 2) \o ","
                              \o LJust3(parts[3]))
              ELSE Norm(FALSE, "")
         ELSE IF CanInt(parts[1]) /\ CanInt(parts[2]) /\ CanInt(parts[3])
              THEN Norm(TRUE, Fmt(ToInt(parts[1]), 2) \o ":"
                              \o Fmt(ToInt(parts[2]), 2) \o ":"
                              \o Fmt(ToInt(parts[3]), 2) \o ",000")
              ELSE Norm(FALSE, "")
    ELSE IF Len(parts) = 4
    THEN IF CanInt(parts[1]) /\ CanInt(parts[2]) /\ CanInt(parts[3])
         THEN Norm(TRUE, Fmt(ToInt(parts[1]), 2) \o ":"
                         \o Fmt(ToInt(parts[2]), 2) \o ":"
                         \o Fmt(ToInt(parts[3]), 2) \o "," \o LJust3(parts[4]))
         ELSE Norm(FALSE, "")
    ELSE Norm(TRUE, timestamp)

\* a variant of normalize_timestamp that reads three parts at most
normalize_three(timestamp0) ==
    LET Replaced(timestamp) ==
            Normalized(timestamp, SubSeq(Split(timestamp, {":", ","}), 1,
                                         Min(3, Len(Split(timestamp, {":", ","})))))
    IN  Replaced(Replace(timestamp0, ".", ","))

normalize_timestamp(timestamp0) ==
    LET Replaced(timestamp) == Normalized(timestamp, Split(timestamp, {":", ","}))
    IN  Replaced(Replace(timestamp0, ".", ","))

----------------------------------------------------------------------------
(* Python's float, as far as the times need it.  A time of one second or   *)
(* more is held as its whole seconds i and its fraction f in units of      *)
(* 2^-52 s, four limbs of 13 bits with the lowest first; a double holds 53 *)
(* significant bits, so that a time of 2^k seconds and more has the lowest *)
(* k bits of f clear, and every operation rounds its exact result to that, *)
(* to the nearest and on a tie to the even one.  Times stay below 2^13 s.  *)

Limb == 8192

Limbs == 4

Float(i, f) == [i |-> i, f |-> f]

Whole(n) == Float(n, <<0, 0, 0, 0>>)

RECURSIVE BitLen(_)
BitLen(n) == IF n = 0 THEN 0 ELSE 1 + BitLen(n \div 2)

\* the limbs of the sums a, from limb k on with carry c; c ends in the seconds
RECURSIVE Carried(_, _, _, _)
Carried(a, k, c, f) ==
    IF k > Limbs THEN [c |-> c, f |-> f]
    ELSE Carried(a, k + 1, (a[k] + c) \div Limb, Append(f, (a[k] + c) % Limb))

\* i seconds and the sums a of limbs, as seconds and limbs
Exact(i, a) ==
    LET Summed(r) == Float(i + r.c, r.f)
    IN  Summed(Carried(a, 1, 0, <<>>))

\* what lies below 2^-52 s of an exact value that ends in rest / d of it:
\* 0 nothing, 1 less than half, 2 half, 3 more than half
Below(rest, d) ==
    IF rest = 0 THEN 0 ELSE IF 2 * rest < d THEN 1 ELSE IF 2 * rest = d THEN 2 ELSE 3

\* x without the lowest k bits of its fraction, rounded: low is what those
\* bits hold, tail what lies below the fraction
Shortened(x, k, low, tail) ==
    LET Up == IF k = 0 THEN tail = 3 \/ (tail = 2 /\ x.f[1] % 2 = 1)
              ELSE \/ low > 2^(k - 1)
                   \/ low = 2^(k - 1) /\ (tail > 0 \/ (x.f[1] \div 2^k) % 2 = 1)
    IN  Exact(x.i, <<x.f[1] - low + (IF Up THEN 2^k ELSE 0), x.f[2], x.f[3], x.f[4]>>)

\* the double nearest to the exact value x (and tail)
Round(x, tail) ==
    IF x.i = 0 THEN x
    ELSE Shortened(x, BitLen(x.i) - 1, x.f[1] % 2^(BitLen(x.i) - 1), tail)

\* x + y
Plus(x, y) == Round(Exact(x.i + y.i, [k \in 1..Limbs |-> x.f[k] + y.f[k]]), 0)

\* the fraction rest / d from limb k down, the limbs f above it done
RECURSIVE LongDiv(_, _, _, _)
LongDiv(rest, d, k, f) ==
    IF k = 0 THEN [rest |-> rest, f |-> f]
    ELSE LongDiv((rest * Limb) % d, d, k - 1, <<(rest * Limb) \div d>> \o f)

\* n / d for integers n and d
Divided(n, d) ==
    LET Quotient(q) == Round(Float(n \div d, q.f), Below(q.rest, d))
    IN  Quotient(LongDiv(n % d, d, Limbs, <<>>))

\* int((x - int(x)) * 1000)
Thousandths(x) == Round(Exact(0, [k \in 1..Limbs |-> x.f[k] * 1000]), 0).i

----------------------------------------------------------------------------
(* format_timestamp and convert_long_text_to_srt.                          *)

LineLength == 42

SegmentSize == 3

MinDurationMs == 2000

GapMs == 250

\* words_per_second = 2.5
WordsPerSecondX10 == 25

\* the gap of 0.25 s
Gap == Divided(GapMs, 1000)

format_timestamp(seconds) ==
    Fmt(seconds.i \div 3600, 2) \o ":" \o Fmt((seconds.i % 3600) \div 60, 2)
    \o ":" \o Fmt(seconds.i % 60, 2) \o "," \o Fmt(Thousandths(seconds), 3)

\* the three alternatives of the speaker pattern of line 368, each between \s*
SpeakerPatterns ==
    <<  <<Cls(White, 0, -1), Cls(Upper, 1, 1), Cls(Lower, 1, -1), Lit(":"),
          Cls(White, 0, -1)>>,
        <<Cls(White, 0, -1), Cls({"["}, 0, 1), Cls(Upper, 1, 1), Cls(Lower, 1, -1),
          Cls({"]"}, 0, 1), Lit(":"), Cls(White, 0, -1)>>,
        <<Cls(White, 0, -1), Lit("("), Cls(Upper, 1, 1), Cls(Lower, 1, -1), Lit(")"),
          Lit(":"), Cls(White, 0, -1)>>  >>

\* of the matches ms of the alternatives, the one that starts leftmost, the
\* earlier alternative first
FirstOf(ms) ==
    LET Pick(found) ==
            IF found = {} THEN NoMatch
            ELSE ms[CHOOSE j \in found : \A k \in found :
                        \/ MatchStart(ms[j]) < MatchStart(ms[k])
                        \/ MatchStart(ms[j]) = MatchStart(ms[k]) /\ j <= k]
    IN  Pick({j \in 1..Len(ms) : Found(ms[j])})

\* re.split of line 368: a turn of the loop over the matches; from 0: done
SpeakerTurn(text, st) ==
    LET Cut(m) ==
            IF Found(m)
            THEN [from |-> MatchEnd(m),
                  parts |-> Append(st.parts, SubSeq(text, st.from, MatchStart(m) - 1))]
            ELSE [from |-> 0, parts |-> Append(st.parts, SubSeq(text, st.from, Len(text)))]
    IN  IF st.from = 0 THEN st
        ELSE Cut(FirstOf([j \in 1..Len(SpeakerPatterns) |->
                             SearchFrom(SpeakerPatterns[j], text, st.from)]))

\* every match holds a colon
SpeakerSplit(text) ==
    Iterate(LAMBDA st : SpeakerTurn(text, st), Count(text, ":") + 1,
            [from |-> 1, parts |-> <<>>]).parts

\* re.split(r'(?<=[.!?])\s+', s): a match is a run of whitespace after ., ! or ?
SentenceSplit(s) ==
    LET Cuts(at) ==
            [k \in 1..(Len(at) + 1) |->
                SubSeq(s, IF k = 1 THEN 1 ELSE at[k - 1] + Run(s, at[k - 1], White),
                          IF k > Len(at) THEN Len(s) ELSE at[k] - 1)]
    IN  Cuts(Sorted({i \in 2..Len(s) : Ch(s, i - 1) \in {".", "!", "?"} /\ Ch(s, i) \in White}))

\* lines 378-381: bundles of segment_size sentences, the empty ones left out
Bundles(sentence_splits) ==
    SelectSeq([k \in 1..((Len(sentence_splits) + SegmentSize - 1) \div SegmentSize) |->
                  JoinRange(sentence_splits, " ", (k - 1) * SegmentSize + 1,
                            Min(k * SegmentSize, Len(sentence_splits)))],
              LAMBDA segment : segment # "")

\* sum(len(w) for w in ws)
SumLen(ws) == Len(Join(ws, ""))

\* lines 417-425: the word wrap of one segment
Wrap(words) ==
    LET Word(k, st) ==
            IF SumLen(st.current_line) + Len(st.current_line) + Len(words[k]) <= LineLength
            THEN [current_line |-> Append(st.current_line, words[k]), lines |-> st.lines]
            ELSE [current_line |-> <<words[k]>>,
                  lines |-> Append(st.lines, Join(st.current_line, " "))]
        Rest(st) ==
            IF st.current_line # <<>> THEN Append(st.lines, Join(st.current_line, " "))
            ELSE st.lines
    IN  Rest(Loop(Word, Len(words), [current_line |-> <<>>, lines |-> <<>>]))

\* max(2, words / words_per_second)
Duration(words) ==
    IF words * 10000 > MinDurationMs * WordsPerSecondX10
    THEN Divided(words * 10, WordsPerSecondX10)
    ELSE Whole(MinDurationMs \div 1000)

\* lines 394-432: a turn of the loop over the segments
SegmentTurn(segment, st) ==
    LET Timed(end) ==
            [counter |-> st.counter + 1,
             current_time_seconds |-> Plus(end, Gap),
             entries |-> Append(st.entries,
                                Entry(st.counter,
                                      format_timestamp(st.current_time_seconds),
                                      format_timestamp(end),
                                      IF Len(segment) > LineLength
                                      THEN Wrap(Words(segment)) ELSE <<segment>>))]
    IN  Timed(Plus(st.current_time_seconds, Duration(Len(Words(segment)))))

Segmented(segments) ==
    Loop(LAMBDA k, st : SegmentTurn(segments[k], st), Len(segments),
         [counter |-> 1, current_time_seconds |-> Whole(0), entries |-> <<>>]).entries

convert_long_text_to_srt(text0) ==
    LET Split3(text, speaker_transitions) ==
            IF Len(speaker_transitions) > 3 THEN speaker_transitions
            ELSE Bundles(SentenceSplit(text))
        Stripped(text) == Split3(text, SpeakerSplit(text))
    IN  Outcome("ok", TRUE,
                Segmented(SelectSeq(Stripped(Strip(text0)), LAMBDA s : Strip(s) # "")),
                FALSE)

----------------------------------------------------------------------------
(* convert_txt_to_srt.  The alternative with an en dash of the arrow       *)
(* pattern is left out: the inputs are drawn from ASCII text.              *)

D1 == Cls(Digits, 1, -1)                    \* \d+

D0 == Cls(Digits, 0, -1)                    \* \d*

Colon01 == Cls({":"}, 0, 1)                 \* :?

Sep1 == Cls({",", ".", ":"}, 1, 1)          \* [,\.:]

SepStar == Cls({",", ".", ":"}, 0, -1)      \* [,\.:]*

Ws0 == Cls(White, 0, -1)                    \* \s*

\* (?:-->|->|-): the arrow of an en dash is left out, the inputs hold none
Arrow == Alt(<<"-->", "->", "-">>)

\* \d+:?\d*:?\d*[,\.:]\d*
Stamp == <<D1, Colon01, D0, Colon01, D0, Sep1, D0>>

\* \d+:\d+:\d+:\d+
Colons4 == <<D1, Lit(":"), D1, Lit(":"), D1, Lit(":"), D1>>

\* line 259, searched; the stamps are atoms 1..7 and 11..17
TxtFormat1 == Stamp \o <<Ws0, Arrow, Ws0>> \o Stamp

\* line 263, anchored at both ends
TxtFormat4 == Stamp \o <<Ws0, Lit(","), Ws0>> \o Stamp \o <<End>>

\* line 267, anchored at both ends
TxtFormat5 == <<D1, Colon01, D0, Colon01, D0, SepStar, D0, End>>

\* line 279, searched
TxtFormat6 == Colons4 \o <<Ws0, Arrow, Ws0>> \o Colons4

\* line 289, anchored at both ends
TxtFormat7 == <<D1, Lit(":"), D1, Lit(":"), End>>

\* re.match(timestamp_pattern, line), line 332
IsTimestampLine(line) ==
    \/ Found(ReMatch(Stamp \o <<Lit(","), Ws0>> \o Stamp \o <<End>>, line))
    \/ Found(ReMatch(Stamp \o <<Ws0, Arrow, Ws0>> \o Stamp \o <<End>>, line))
    \/ Found(ReMatch(TxtFormat5, line))

\* the first match of ms that was found, 0 when none was
FirstFound(ms) ==
    IF \E k \in 1..Len(ms) : Found(ms[k])
    THEN MinOf({k \in 1..Len(ms) : Found(ms[k])})
    ELSE 0

\* [hit |-> FALSE]: the line holds no timestamp; end "": the line gives no end
Stamps(hit, start, end) == [hit |-> hit, start |-> start, end |-> end]

\* lines 259-295: the stamps of the line, from the first of the formats (in
\* the order 1, 4, 5, 6, 7 of the source) that matched it, matches ms
TxtPicked(line, ms, format) ==
    IF format = 0 THEN Stamps(FALSE, "", "")
    ELSE IF format <= 2
    THEN Stamps(TRUE, Group(line, ms[format], 1, 7), Group(line, ms[format], 11, 17))
    ELSE IF format = 3 THEN Stamps(TRUE, Group(line, ms[3], 1, 7), "")
    ELSE IF format = 4
    THEN Stamps(TRUE, Group(line, ms[4], 1, 5) \o "," \o Group(line, ms[4], 7, 7),
                Group(line, ms[4], 11, 15) \o "," \o Group(line, ms[4], 17, 17))
    ELSE Stamps(TRUE, "00:" \o Group(line, ms[5], 1, 3) \o ",000", "")

TxtMatched(line, ms) == TxtPicked(line, ms, FirstFound(ms))

TxtStamps(line) ==
    TxtMatched(line, <<ReSearch(TxtFormat1, line), ReMatch(TxtFormat4, line),
                       ReMatch(TxtFormat5, line), ReSearch(TxtFormat6, line),
                       ReMatch(TxtFormat7, line)>>)

DefaultSeconds == 5

\* f"{hours:02d}:{minutes:02d}:{seconds:02d},{millis:03d}"
Stamp4(hours, minutes, seconds, millis) ==
    Fmt(hours, 2) \o ":" \o Fmt(minutes, 2) \o ":" \o Fmt(seconds, 2) \o "," \o Fmt(millis, 3)

\* a variant of Carry that takes the full minutes away without adding the hour
CarryMinutesOnly(hours, minutes, seconds, millis) ==
    IF seconds >= 60
    THEN Stamp4(hours, (minutes + seconds \div 60) % 60, seconds % 60, millis)
    ELSE Stamp4(hours, minutes, seconds, millis)

\* lines 314-321: the carries after `seconds += 5`
Carry(hours, minutes, seconds, millis) ==
    IF seconds >= 60
    THEN IF minutes + seconds \div 60 >= 60
         THEN Stamp4(hours + (minutes + seconds \div 60) \div 60,
                     (minutes + seconds \div 60) % 60, seconds % 60, millis)
         ELSE Stamp4(hours, minutes + seconds \div 60, seconds % 60, millis)
    ELSE Stamp4(hours, minutes, seconds, millis)

\* lines 306-325: the end time when the line gives none, time_parts being
\* start_time.replace(',', ':').split(':'); ok FALSE: int() raised
DefaultFrom(time_parts) ==
    IF Len(time_parts) >= 3
    THEN IF /\ \A k \in 1..3 : CanInt(time_parts[k])
            /\ Len(time_parts) > 3 => CanInt(time_parts[4])
         THEN Norm(TRUE, Carry(ToInt(time_parts[1]), ToInt(time_parts[2]),
                               ToInt(time_parts[3]) + DefaultSeconds,
                               IF Len(time_parts) > 3 THEN ToInt(time_parts[4]) ELSE 0))
         ELSE Norm(FALSE, "")
    ELSE Norm(TRUE, "00:00:05,000")

DefaultEnd(start_time) == DefaultFrom(Split(Replace(start_time, ",", ":"), {":"}))

\* lines 333-335: the lines of text from line i on
RECURSIVE TxtCollect(_, _, _)
TxtCollect(lines, i, subtitle_lines) ==
    IF i <= Len(lines) /\ Strip(lines[i]) # "" /\ ~IsTimestampLine(Strip(lines[i]))
    THEN TxtCollect(lines, i + 1, Append(subtitle_lines, Strip(lines[i])))
    ELSE [i |-> i, subtitle_lines |-> subtitle_lines]

\* lines 353-356, or the exception that left the loop
TxtDone(st) == IF st.ok THEN Outcome("ok", TRUE, st.entries, FALSE) ELSE Raised

\* lines 338-349: a line that is no timestamp is the text, and the entry is
\* emitted when it has text; c is what TxtCollect gave
TxtText(lines, st, start_time, end_time, c) ==
    IF /\ c.subtitle_lines = <<>>
       /\ c.i <= Len(lines)
       /\ ~IsTimestampLine(Strip(lines[c.i]))
    THEN Emit(st, c.i + 1, start_time, end_time, <<Strip(lines[c.i])>>)
    ELSE Emit(st, c.i, start_time, end_time, c.subtitle_lines)

\* lines 298-335: the stamps normalised, an int() that raises leaves the loop
TxtTimed(lines, st, start_time, end_time) ==
    IF ~start_time.ok \/ ~end_time.ok THEN Scan(st.i, st.counter, st.entries, FALSE)
    ELSE TxtText(lines, st, start_time.s, end_time.s, TxtCollect(lines, st.i + 1, <<>>))

\* lines 298-325: t is what TxtStamps gave of the line
TxtStamped(lines, st, t) ==
    IF ~t.hit THEN Scan(st.i + 1, st.counter, st.entries, TRUE)
    ELSE TxtTimed(lines, st, normalize_timestamp(t.start),
                  IF t.end # "" THEN normalize_timestamp(t.end)
                  ELSE DefaultEnd(normalize_timestamp(t.start).s))

\* lines 247-256
TxtLine(lines, st, line) ==
    IF line = "" THEN Scan(st.i + 1, st.counter, st.entries, TRUE)
    ELSE TxtStamped(lines, st, TxtStamps(line))

\* lines 246-351: a turn of the loop over the lines
TxtTurn(lines, st) ==
    IF ~st.ok \/ st.i > Len(lines) THEN st ELSE TxtLine(lines, st, Strip(lines[st.i]))

LongLineLimit == 1000

\* lines 238-243 and 246-356: lines is f.readlines()
TxtRead(data, lines) ==
    IF /\ Len(lines) = 1
       /\ Len(data) > LongLineLimit
       /\ ~Found(ReSearch(<<D1, Lit(":"), D1>>, lines[1]))
    THEN convert_long_text_to_srt(data)
    ELSE TxtDone(Iterate(LAMBDA st : TxtTurn(lines, st), Len(lines),
                         Scan(1, 1, <<>>, TRUE)))

\* data: the content of the file read (the input, or the RTF parser's scratch)
convert_txt_to_srt(data) == TxtRead(data, ReadLines(data))

----------------------------------------------------------------------------
(* convert_special_txt_format and convert_sbv_to_srt                       *)

\* \d+:\d+:\d+\.\d+
DotStamp == <<D1, Lit(":"), D1, Lit(":"), D1, Lit("."), D1>>

\* (\d+:\d+:\d+\.\d+),(\d+:\d+:\d+\.\d+): the stamps are atoms 1..7 and 9..15
PairPattern == DotStamp \o <<Lit(",")>> \o DotStamp

\* lines 737-740
SpecialHour(t) ==
    IF Count(t, ":") = 2 /\ Ch(t, 1) = "0" /\ ~StartsAt(t, 1, "00") THEN "0" \o t ELSE t

\* line 745: the lines of text from line i on
RECURSIVE SpecialCollect(_, _, _)
SpecialCollect(lines, i, subtitle_lines) ==
    IF /\ i <= Len(lines)
       /\ Strip(lines[i]) # ""
       /\ ~Found(ReSearch(PairPattern, Strip(lines[i])))
    THEN SpecialCollect(lines, i + 1, Append(subtitle_lines, Strip(lines[i])))
    ELSE [i |-> i, subtitle_lines |-> subtitle_lines]

\* lines 716-758: a turn of the loop over the lines; a pair line without
\* text skips the line after it (line 756)
SpecialTurn(lines, st) ==
    LET Matched(line, m) ==
            IF line = "" \/ ~Found(m) THEN Scan(st.i + 1, st.counter, st.entries, TRUE)
            ELSE Collected(st, SpecialHour(Replace(Group(line, m, 1, 7), ".", ",")),
                           SpecialHour(Replace(Group(line, m, 9, 15), ".", ",")),
                           SpecialCollect(lines, st.i + 1, <<>>), 1)
    IN  IF st.i > Len(lines) THEN st
        ELSE Matched(Strip(lines[st.i]), ReSearch(PairPattern, Strip(lines[st.i])))

\* text.splitlines() is f.readlines() without the line ends on these inputs
convert_special_txt_format(data) ==
    LET Read(lines) ==
            Outcome("ok", TRUE,
                    Iterate(LAMBDA st : SpecialTurn(lines, st), Len(lines),
                            Scan(1, 1, <<>>, TRUE)).entries,
                    FALSE)
    IN  Read(ReadLines(data))

\* lines 628-631
SbvHour(t) == IF Count(t, ":") = 2 /\ Ch(t, 2) = ":" THEN "0" \o t ELSE t

\* line 636: the lines of text from line i on; the line is searched unstripped
RECURSIVE SbvCollect(_, _, _)
SbvCollect(lines, i, subtitle_lines) ==
    IF /\ i <= Len(lines)
       /\ Strip(lines[i]) # ""
       /\ ~Found(ReSearch(PairPattern, lines[i]))
    THEN SbvCollect(lines, i + 1, Append(subtitle_lines, Strip(lines[i])))
    ELSE [i |-> i, subtitle_lines |-> subtitle_lines]

\* lines 611-647: a turn of the loop over the lines
SbvTurn(lines, st) ==
    LET Matched(line, m) ==
            IF line = "" \/ ~Found(m) THEN Scan(st.i + 1, st.counter, st.entries, TRUE)
            ELSE Collected(st, SbvHour(Replace(Group(line, m, 1, 7), ".", ",")),
                           SbvHour(Replace(Group(line, m, 9, 15), ".", ",")),
                           SbvCollect(lines, st.i + 1, <<>>), 0)
    IN  IF st.i > Len(lines) THEN st
        ELSE Matched(Strip(lines[st.i]), ReSearch(PairPattern, Strip(lines[st.i])))

convert_sbv_to_srt(data) ==
    LET Read(lines) ==
            Outcome("ok", TRUE,
                    Iterate(LAMBDA st : SbvTurn(lines, st), Len(lines),
                            Scan(1, 1, <<>>, TRUE)).entries,
                    FALSE)
    IN  Read(ReadLines(data))

----------------------------------------------------------------------------
(* convert_vtt_to_srt                                                      *)

\* re.sub(p, repl, s) for a pattern that matches no empty text: Repl(m) is
\* what match m is replaced with, and turns is a number of turns that no
\* number of matches exceeds
ReSub(p, Repl(_), s, turns) ==
    LET Cut(st, m) ==
            IF Found(m)
            THEN [from |-> MatchEnd(m),
                  text |-> st.text \o SubSeq(s, st.from, MatchStart(m) - 1) \o Repl(m)]
            ELSE [from |-> 0, text |-> st.text \o SubSeq(s, st.from, Len(s))]
        Turn(st) == IF st.from = 0 THEN st ELSE Cut(st, SearchFrom(p, s, st.from))
    IN  Iterate(Turn, turns, [from |-> 1, text |-> ""]).text

\* WEBVTT.*?(\r\n|\r|\n)(\r\n|\r|\n): "." stops at the line end
VttHeader == <<Lit("WEBVTT"), Cls(Alphabet \ {"\n"}, 0, -1), Lit("\n"), Lit("\n")>>

\* line 496
SubHeader(s) == ReSub(VttHeader, LAMBDA m : "", s, Count(s, "W") + 1)

\* line 510: (\d+):(\d+):(\d+)\.(\d+) becomes \1:\2:\3,\4
SubHours(s) ==
    ReSub(DotStamp, LAMBDA m : Group(s, m, 1, 5) \o "," \o Group(s, m, 7, 7), s,
          Count(s, ".") + 1)

\* line 514: (\d+):(\d+)\.(\d+) becomes 00:\1:\2,\3
SubNoHours(s) ==
    ReSub(<<D1, Lit(":"), D1, Lit("."), D1>>,
          LAMBDA m : "00:" \o Group(s, m, 1, 3) \o "," \o Group(s, m, 5, 5), s,
          Count(s, ".") + 1)

\* \d+:\d+:\d+,\d+
CommaStamp == <<D1, Lit(":"), D1, Lit(":"), D1, Lit(","), D1>>

\* line 531: the stamps are atoms 1..7 and 11..17
VttRange == CommaStamp \o <<Ws0, Lit("-->"), Ws0>> \o CommaStamp

\* line 540: \d+:\d+:\d+[,\.]\d+\s*-->
VttNext == <<D1, Lit(":"), D1, Lit(":"), D1, Cls({",", "."}, 1, 1), D1, Ws0, Lit("-->")>>

\* line 540: the lines of text from line i on
RECURSIVE VttCollect(_, _, _)
VttCollect(lines, i, subtitle_lines) ==
    IF /\ i <= Len(lines)
       /\ Strip(lines[i]) # ""
       /\ ~Found(ReSearch(VttNext, lines[i]))
    THEN VttCollect(lines, i + 1, Append(subtitle_lines, Strip(lines[i])))
    ELSE [i |-> i, subtitle_lines |-> subtitle_lines]

\* lines 522-551: a turn of the loop over the lines
VttTurn(lines, st) ==
    LET Matched(line, m) ==
            IF line = "" \/ StartsAt(line, 1, "NOTE") \/ ~Found(m)
            THEN Scan(st.i + 1, st.counter, st.entries, TRUE)
            ELSE Collected(st, Group(line, m, 1, 7), Group(line, m, 11, 17),
                           VttCollect(lines, st.i + 1, <<>>), 0)
    IN  IF st.i > Len(lines) THEN st
        ELSE Matched(Strip(lines[st.i]), ReSearch(VttRange, Strip(lines[st.i])))

\* lines 516-551: the entries of the loop over the lines
VttEntries(lines) ==
    Iterate(LAMBDA st : VttTurn(lines, st), Len(lines), Scan(1, 1, <<>>, TRUE)).entries

\* lines 554-561: without a caption the TXT parser is run on the input file
VttScanned(data, entries) ==
    IF entries = <<>>            \* counter == 1
    THEN convert_txt_to_srt(data)
    ELSE Outcome("ok", TRUE, entries, FALSE)

\* lines 499-551: content is the text without its header
VttHeadless(data, content) ==
    IF Contains(content, ",") /\ ~Contains(content, "-->")
    THEN convert_txt_to_srt(data)
    ELSE VttScanned(data, VttEntries(Split(SubNoHours(SubHours(content)), {"\n"})))

\* the TXT parser is handed the input file, header and all
convert_vtt_to_srt(data) == VttHeadless(data, SubHeader(data))

----------------------------------------------------------------------------
(* convert_rtf_to_srt, on text that holds no backslash and no brace: the   *)
(* substitutions of lines 169-182 leave such text as it is, and the split  *)
(* on backslashes of line 186 gives one line.                              *)

\* re.sub(r'\s+', ' ', s) on the characters lo..hi of s: a run of whitespace
\* leaves one space, at its first character (by halves)
RECURSIVE CollapseWs(_, _, _)
CollapseWs(s, lo, hi) ==
    IF lo > hi THEN ""
    ELSE IF lo = hi
         THEN (IF Ch(s, lo) \notin White THEN Ch(s, lo)
               ELSE IF lo > 1 /\ Ch(s, lo - 1) \in White THEN "" ELSE " ")
    ELSE CollapseWs(s, lo, (lo + hi) \div 2) \o CollapseWs(s, (lo + hi) \div 2 + 1, hi)

\* [,\.]
DotComma == Cls({",", "."}, 1, 1)

\* line 195: the stamps are atoms 1..7 and 11..17
RtfFormat1 ==
    <<D1, Lit(":"), D1, Lit(":"), D1, DotComma, D1, Ws0, Arrow, Ws0,
      D1, Lit(":"), D1, Lit(":"), D1, DotComma, D1>>

\* line 196: the stamps are atoms 1..5 and 7..11
RtfFormat2 ==
    <<D1, Lit(":"), D1, Lit(":"), D1, Cls(Alphabet \ (Digits \cup {":"}), 0, -1),
      D1, Lit(":"), D1, Lit(":"), D1>>

\* lines 194-208: the line of the first of the three formats that matched,
\* matches ms, and the text after it
RtfMatched(line, ms, format) ==
    LET Cleaned(start_time, end_time, text) ==
            IF text # "" THEN <<start_time \o " --> " \o end_time, text>>
            ELSE <<start_time \o " --> " \o end_time>>
    IN  IF format = 0 THEN <<line>>
        ELSE Cleaned(Group(line, ms[format], 1, IF format = 2 THEN 5 ELSE 7),
                     IF format = 1 THEN Group(line, ms[1], 11, 17)
                     ELSE IF format = 2 THEN Group(line, ms[2], 7, 11)
                     ELSE Group(line, ms[3], 9, 15),
                     Strip(SubSeq(line, MatchEnd(ms[format]), Len(line))))

\* lines 190-212 for the one line
RtfClean(line) ==
    LET Searched(ms) == RtfMatched(line, ms, FirstFound(ms))
    IN  IF line = "" THEN <<>>
        ELSE Searched(<<ReSearch(RtfFormat1, line), ReSearch(RtfFormat2, line),
                        ReSearch(PairPattern, line)>>)

\* the scratch file is removed only when the TXT parser returns
convert_rtf_to_srt(data) ==
    LET Cleaned(r) == IF r.st = "raise" THEN Outcome("raise", FALSE, <<>>, TRUE) ELSE r
    IN  Cleaned(convert_txt_to_srt(Join(RtfClean(Strip(CollapseWs(data, 1, Len(data)))),
                                        "\n")))

----------------------------------------------------------------------------
(* convert_xml_to_srt.  ET.parse is the library's: an input carries the    *)
(* tree it parses to (xml.ok, xml.els: the elements in document order, an  *)
(* attribute that is absent being ""), or xml.ok = FALSE for ParseError.   *)

\* [\.:]
DotColon == Cls({".", ":"}, 1, 1)

\* lines 677-682: float() of the digits whole.frac, as a timestamp
XmlSeconds(whole, frac) == format_timestamp(Divided(ToInt(whole \o frac), 10^Len(frac)))

\* lines 659-684: the time of the first of the three formats that matched,
\* matches ms
XmlTimed(timestamp, ms, format) ==
    IF format = 1
    THEN Group(timestamp, ms[1], 1, 1) \o ":" \o Group(timestamp, ms[1], 3, 3) \o ":"
         \o Group(timestamp, ms[1], 5, 5) \o "," \o LJust3(Group(timestamp, ms[1], 7, 7))
    ELSE IF format = 2
    THEN "00:" \o Group(timestamp, ms[2], 1, 1) \o ":" \o Group(timestamp, ms[2], 3, 3)
         \o "," \o LJust3(Group(timestamp, ms[2], 5, 5))
    ELSE IF format = 3
    THEN XmlSeconds(Group(timestamp, ms[3], 1, 1), Group(timestamp, ms[3], 3, 3))
    ELSE timestamp

convert_xml_time(timestamp) ==
    LET Matched(ms) == XmlTimed(timestamp, ms, FirstFound(ms))
    IN  Matched(<<ReMatch(<<D1, Lit(":"), D1, Lit(":"), D1, DotColon, D1>>, timestamp),
                  ReMatch(<<D1, Lit(":"), D1, DotColon, D1>>, timestamp),
                  ReMatch(<<D1, Lit("."), D1, Cls({"s"}, 0, 1)>>, timestamp)>>)

\* root.findall('.//p') or root.findall('.//subtitle') or root.findall('.//text')
XmlSubtitles(els) ==
    LET Tagged(t) == SelectSeq(els, LAMBDA e : e.tag = t)
    IN  IF Tagged("p") # <<>> THEN Tagged("p")
        ELSE IF Tagged("subtitle") # <<>> THEN Tagged("subtitle")
        ELSE Tagged("text")

\* lines 576-592: a turn of the loop over the elements
XmlTurn(subtitle, st) ==
    LET Timed(start_time, end_time, text) ==
            IF start_time # "" /\ end_time # ""
            THEN Emit(st, st.i + 1, convert_xml_time(start_time),
                      convert_xml_time(end_time),
                      IF text # "" THEN <<text>> ELSE <<>>)
            ELSE st
    IN  Timed(IF subtitle.begin # "" THEN subtitle.begin ELSE subtitle.start,
              IF subtitle.end # "" THEN subtitle.end ELSE subtitle.dur,
              Strip(subtitle.text))

convert_xml_to_srt(xml) ==
    LET Found3(subtitles) ==
            Outcome("ok", TRUE,
                    Loop(LAMBDA k, st : XmlTurn(subtitles[k], st), Len(subtitles),
                         Scan(1, 1, <<>>, TRUE)).entries,
                    FALSE)
    IN  IF ~xml.ok THEN Outcome("false", FALSE, <<>>, FALSE)
        ELSE Found3(XmlSubtitles(xml.els))

----------------------------------------------------------------------------
(* is_srt_valid                                                            *)

\* a variant of ValidTurn that takes a timestamp line only after an index line
ValidTurnOrdered(line, st) ==
    LET Flags(has_timestamp, has_number) ==
            [has_timestamp |-> has_timestamp, has_number |-> has_number,
             returned |-> has_timestamp /\ has_number]
    IN  IF st.returned THEN st
        ELSE Flags(st.has_timestamp \/ (st.has_number /\ Contains(line, "-->")),
                   st.has_number \/ Found(ReMatch(<<Cls(Digits, 1, -1), End>>, Strip(line))))

\* lines 149-157: a turn of the loop over the lines; returned: line 155 ran
ValidTurn(line, st) ==
    LET Flags(has_timestamp, has_number) ==
            [has_timestamp |-> has_timestamp, has_number |-> has_number,
             returned |-> has_timestamp /\ has_number]
    IN  IF st.returned THEN st
        ELSE Flags(st.has_timestamp \/ Contains(line, "-->"),
                   st.has_number \/ Found(ReMatch(<<Cls(Digits, 1, -1), End>>, Strip(line))))

is_srt_valid(f) ==
    LET Lines(lines) ==
            IF Len(lines) < 3 THEN FALSE
            ELSE Loop(LAMBDA k, st : ValidTurn(lines[k], st), Len(lines),
                      [has_timestamp |-> FALSE, has_number |-> FALSE,
                       returned |-> FALSE]).returned
        Content(content) ==
            IF content = "" THEN FALSE ELSE Lines(Split(content, {"\n"}))
    IN  IF ~f.exists THEN FALSE       \* open() raises, caught at line 158
        ELSE Content(Strip(f.data))

----------------------------------------------------------------------------
(* The inputs.                                                             *)

\* lines per input file drawn from the catalogue, and elements per XML input
MaxLines == 2

LongLine ==
    "The quick brown fox jumps over it. It was a dark and stormy night! Who goes there? Nobody answered the call."

\* one line of more than LongLineLimit characters
LongText == Join([k \in 1..10 |-> LongLine], " ")

\* the lines the input files are made of
Catalogue ==
    { "", "Hi", "12", "1:", "00:00:10", "00:05.000 --> 00:01.000",
      "0:00:01.5,0:00:02.50", "WEBVTT" }

\* the texts of 1..n lines of cs
RECURSIVE Texts(_, _)
Texts(cs, n) ==
    IF n = 1 THEN cs
    ELSE Texts(cs, n - 1) \cup {t \o "\n" \o c : t \in Texts(cs, n - 1), c \in cs}

\* texts of more lines: a valid SRT file, the scenarios of the specification's
\* section 8, entries without text before entries with text, a line int()
\* fails on before a timestamp pair, an index line after the caption, a
\* transcript with speakers, and long running text
Scenarios ==
    { "1\n00:00:01,000 --> 00:00:02,000\nHi\n",
      "WEBVTT\n\n00:01.000 --> 00:05.000\nHello",
      "0:00:00.000,0:00:04.500\nHi there",
      "00:00:10\nOne line of text",
      "0:00:01.5,0:00:02.50\n0:00:03.000,0:00:04.000\nHi\n1:00:05.000,1:00:06.000\nHi",
      "00:00:10\n\n00:00:20 - 00:00:30\nHi\nHi\n\n00:59:58\nHi\n",
      "WEBVTT\n\nNOTE 12\n00:01.000 --> 00:05.000\n1:00:01.000 --> 1:00:05.000\nHi\n\n00:00:06.000 --> 00:00:07.000\nHi",
      "1:\n0:00:01.5,0:00:02.50\nHi",
      "00:05.000 --> 00:01.000\nHi\n12",
      "Bob: 12 Ann: How are you today? Bob: Fine, thank you. Ann: It was a dark and stormy night, was it not? Bob: No.",
      LongLine, LongText }

Element(tag, begin, start, end, dur, text) ==
    [tag |-> tag, begin |-> begin, start |-> start, end |-> end, dur |-> dur,
     text |-> text]

XmlCatalogue ==
    { Element("p", "0:00:01.5", "", "0:00:02.50", "", "Hi"),
      Element("p", "", "1.5s", "", "2.5", "Hi"),
      Element("p", "00:01.5", "", "00:02.5", "", ""),
      Element("text", "", "5.0", "", "", "Hi"),
      Element("text", "", "5.0", "", "1.0", "12") }

Attr(name, value) == IF value = "" THEN "" ELSE " " \o name \o "=\"" \o value \o "\""

\* the text ET.parse reads the element from
XmlLine(e) ==
    "<" \o e.tag \o Attr("begin", e.begin) \o Attr("start", e.start) \o Attr("end", e.end)
    \o Attr("dur", e.dur) \o ">" \o e.text \o "</" \o e.tag \o ">"

NoXml == [ok |-> FALSE, els |-> <<>>]

TextInput(s) == [exists |-> TRUE, data |-> s, xml |-> NoXml]

XmlInput(els) ==
    [exists |-> TRUE,
     data |-> Join(<<"<tt>">> \o [k \in 1..Len(els) |-> XmlLine(els[k])] \o <<"</tt>">>,
                   "\n"),
     xml |-> [ok |-> TRUE, els |-> els]]

\* no file at the input path
Missing == [exists |-> FALSE, data |-> "", xml |-> NoXml]

\* the sequences of 1..n elements of S
RECURSIVE Seqs(_, _)
Seqs(S, n) ==
    IF n = 1 THEN {<<x>> : x \in S}
    ELSE Seqs(S, n - 1) \cup {Append(q, x) : q \in Seqs(S, n - 1), x \in S}

Inputs ==
    {TextInput(s) : s \in Texts(Catalogue, MaxLines) \cup Scenarios}
    \cup {XmlInput(els) : els \in Seqs(XmlCatalogue, MaxLines)}
    \cup {Missing}

\* no batch run
NoBatch == [todo |-> {}, success |-> {}, problem |-> {}, made |-> {},
            successful |-> 0, problematic |-> 0, skipped |-> 0]

Supported == {".rtf", ".txt", ".vtt", ".xml", ".sbv", ".srt"}

Extensions == Supported \cup {".mov"}

----------------------------------------------------------------------------
(* convert_to_srt                                                          *)

SniffBytes == 1000

MinTextLength == 100

\* a variant of `converters` with the first two parsers exchanged
convertersVttFirst == <<"vtt", "txt", "sbv", "rtf">>

\* the list `converters` of lines 88-93
converters == <<"txt", "vtt", "sbv", "rtf">>

\* the parser conv on the input: the parsers of lines 48-57 and 88-93
Convert(conv) ==
    CASE conv = "txt" -> convert_txt_to_srt(inp.data)
      [] conv = "vtt" -> convert_vtt_to_srt(inp.data)
      [] conv = "sbv" -> convert_sbv_to_srt(inp.data)
      [] conv = "rtf" -> convert_rtf_to_srt(inp.data)
      [] conv = "xml" -> convert_xml_to_srt(inp.xml)

\* the output file after a parser's outcome o
After(o) == IF o.wrote THEN Written(o.entries) ELSE out

\* `result and is_srt_valid(output_file)` after outcome o
Accepted(o) == o.st = "ok" /\ is_srt_valid(After(o))

Verdict(o) ==
    IF o.st = "raise" THEN "raised" ELSE IF Accepted(o) THEN "accepted" ELSE "rejected"

\* the files and the history after parser conv ran in stage stage
Ran(stage, conv, o) ==
    /\ out' = After(o)
    /\ doc' = IF o.wrote THEN o.entries ELSE doc
    /\ temp' = IF conv = "rtf" THEN o.scratch ELSE temp
    /\ trace' = Append(trace, [stage |-> stage, conv |-> conv, outcome |-> Verdict(o)])

Return(value) == ret' = value /\ pc' = "done"

Init ==
    /\ inp \in Inputs
    /\ ext \in Extensions
    /\ same \in BOOLEAN
    /\ same => ext = ".srt" /\ inp.exists
    /\ out = IF same THEN File(inp.data) ELSE NoFile
    /\ temp = FALSE
    /\ pc = "begin"
    /\ result = FALSE
    /\ ret = "none"
    /\ idx = 0
    /\ trace = <<>>
    /\ doc = <<>>
    /\ batch = NoBatch

\* a variant of Begin that looks into the head of every file
BeginSniffsAll ==
    /\ pc = "begin"
    /\ IF ~inp.exists THEN Return(FALSE) ELSE pc' = "sniff" /\ ret' = ret
    /\ result' = FALSE
    /\ UNCHANGED <<batch, ext, inp, same, out, temp, idx, trace, doc>>

\* lines 13-26
Begin ==
    /\ pc = "begin"
    /\ IF ~inp.exists THEN Return(FALSE)
       ELSE pc' = (IF ext = ".txt" THEN "sniff" ELSE "first") /\ ret' = ret
    /\ result' = FALSE
    /\ UNCHANGED <<batch, ext, inp, same, out, temp, idx, trace, doc>>

\* lines 39-43, o being what the parser did
Sniffed(o) ==
    /\ Ran("sniff", "special", o)
    /\ result' = (o.st = "ok")
    /\ IF Accepted(o) THEN Return(TRUE) ELSE pc' = "first" /\ ret' = ret

\* lines 29-45: the timestamp-pair variant first, when the head of a .txt shows it
Sniff ==
    /\ pc = "sniff"
    /\ IF Found(ReSearch(PairPattern, SubSeq(inp.data, 1, Min(Len(inp.data), SniffBytes))))
       THEN Sniffed(convert_special_txt_format(inp.data))
       ELSE /\ pc' = "first"
            /\ UNCHANGED <<out, doc, temp, trace, result, ret>>
    /\ UNCHANGED <<batch, ext, inp, same, idx>>

\* lines 48-57 and 66-68; an exception leaves through the handler of line 126
Parsed(conv, o) ==
    /\ Ran("first", conv, o)
    /\ IF o.st = "raise" THEN Return(FALSE) /\ result' = result
       ELSE /\ result' = (o.st = "ok")
            /\ IF Accepted(o) THEN Return(TRUE) ELSE pc' = "second" /\ ret' = ret

\* a variant of Copied whose copy is trimmed
CopiedStripped(valid) ==
    /\ out' = File(Strip(inp.data))
    /\ doc' = <<>>
    /\ trace' = Append(trace, [stage |-> "first", conv |-> "copy",
                               outcome |-> IF valid THEN "accepted" ELSE "rejected"])
    /\ result' = TRUE
    /\ IF valid THEN Return(TRUE) ELSE pc' = "second" /\ ret' = ret
    /\ UNCHANGED temp

\* lines 58-61 and 66-68: shutil.copy2 on two paths
Copied(valid) ==
    /\ out' = File(inp.data)
    /\ doc' = <<>>
    /\ trace' = Append(trace, [stage |-> "first", conv |-> "copy",
                               outcome |-> IF valid THEN "accepted" ELSE "rejected"])
    /\ result' = TRUE
    /\ IF valid THEN Return(TRUE) ELSE pc' = "second" /\ ret' = ret
    /\ UNCHANGED temp

\* lines 47-69: the parser the extension names, and the validation of its output
First ==
    /\ pc = "first"
    /\ IF ext \in {".rtf", ".txt", ".vtt", ".xml", ".sbv"}
       THEN Parsed(SubSeq(ext, 2, 4), Convert(SubSeq(ext, 2, 4)))
       ELSE IF ext = ".srt" /\ ~same
       THEN Copied(is_srt_valid(File(inp.data)))
       ELSE \* shutil.copy2 raises SameFileError, or the extension is unsupported
            /\ Return(FALSE)
            /\ UNCHANGED <<out, doc, temp, trace, result>>
    /\ UNCHANGED <<batch, ext, inp, same, idx>>

\* a variant of Retried that takes the parser's word for its output
RetriedUnchecked(stage, conv, o, next) ==
    /\ Ran(stage, conv, o)
    /\ result' = (IF o.st = "raise" THEN result ELSE o.st = "ok")
    /\ IF o.st = "ok" THEN Return(TRUE)
       ELSE IF next = "done" THEN Return(FALSE)
       ELSE pc' = next /\ ret' = ret

\* a parser run under a handler that goes on: lines 73-79, 99-106, 110-120;
\* next is where the function goes on when the output is not accepted
Retried(stage, conv, o, next) ==
    /\ Ran(stage, conv, o)
    /\ result' = (IF o.st = "raise" THEN result ELSE o.st = "ok")
    /\ IF Accepted(o) THEN Return(TRUE)
       ELSE IF next = "done" THEN Return(FALSE)
       ELSE pc' = next /\ ret' = ret

\* lines 71-81: the timestamp-pair variant after the TXT parser
Second ==
    /\ pc = "second"
    /\ IF ext = ".txt" /\ (~result \/ ~is_srt_valid(out))
       THEN Retried("second", "special", convert_special_txt_format(inp.data), "third")
       ELSE /\ pc' = "third"
            /\ UNCHANGED <<out, doc, temp, trace, result, ret>>
    /\ UNCHANGED <<batch, ext, inp, same, idx>>

\* lines 84-85 and 125
Third ==
    /\ pc = "third"
    /\ IF ~result \/ ~is_srt_valid(out)
       THEN pc' = "loop" /\ idx' = 1 /\ ret' = ret
       ELSE Return(result) /\ idx' = idx
    /\ UNCHANGED <<batch, ext, inp, same, out, temp, result, trace, doc>>

\* lines 95-106: one turn of the loop over the converters
Fallback ==
    /\ pc = "loop"
    /\ IF "." \o converters[idx] = ext
       THEN /\ pc' = (IF idx < Len(converters) THEN "loop" ELSE "last")
            /\ UNCHANGED <<out, doc, temp, trace, result, ret>>
       ELSE Retried("fallback", converters[idx], Convert(converters[idx]),
                    IF idx < Len(converters) THEN "loop" ELSE "last")
    /\ idx' = idx + 1
    /\ UNCHANGED <<batch, ext, inp, same>>

\* lines 108-123: the long-text segmenter on the raw text
Last ==
    /\ pc = "last"
    /\ IF Len(inp.data) > MinTextLength
       THEN Retried("last", "long", convert_long_text_to_srt(inp.data), "done")
       ELSE Return(FALSE) /\ UNCHANGED <<out, doc, temp, trace, result>>
    /\ UNCHANGED <<batch, ext, inp, same, idx>>

Next == Begin \/ Sniff \/ First \/ Second \/ Third \/ Fallback \/ Last

Spec == Init /\ [][Next]_vars

----------------------------------------------------------------------------
(* is_srt_valid on its own: the validator applied to a file of any lines.  *)

\* lines per validated file
MaxValidatorLines == 4

\* the lines the validated files are made of
ValidatorLines == {"", "a", "1", " 12 ", "-->", "1 --> 2"}

InitV ==
    /\ out \in {NoFile} \cup {File(s) : s \in Texts(ValidatorLines, MaxValidatorLines)}
    /\ pc = "valid"
    /\ result = FALSE
    /\ ext = ".srt"
    /\ inp = Missing
    /\ same = FALSE
    /\ temp = FALSE
    /\ ret = "none"
    /\ idx = 0
    /\ trace = <<>>
    /\ doc = <<>>
    /\ batch = NoBatch

\* a call of is_srt_valid on the file at the output path
Validate ==
    /\ pc = "valid"
    /\ result' = is_srt_valid(out)
    /\ pc' = "returned"
    /\ UNCHANGED <<batch, ext, inp, same, out, temp, ret, idx, trace, doc>>

NextV == Validate

SpecV == InitV /\ [][NextV]_vars

----------------------------------------------------------------------------
(* Properties of convert_to_srt (under Spec) and is_srt_valid (under SpecV) *)

Ended == pc = "done"

Final == trace[Len(trace)]

\* the entries of the history made by the fallback loop
FallbackRuns == SelectSeq(trace, LAMBDA r : r.stage = "fallback")

\* TXT, VTT, SBV, RTF without the parser of the extension
OthersInOrder == SelectSeq(<<"txt", "vtt", "sbv", "rtf">>, LAMBDA c : "." \o c # ext)

\* HH:MM:SS,mmm: two, two, two and three digits
Canonical(t) ==
    /\ Len(t) = 12
    /\ \A i \in {1, 2, 4, 5, 7, 8, 10, 11, 12} : Ch(t, i) \in Digits
    /\ Ch(t, 3) = ":" /\ Ch(t, 6) = ":" /\ Ch(t, 9) = ","

\* the milliseconds a canonical timestamp stands for
Millis(t) ==
    ((ToInt(SubSeq(t, 1, 2)) * 60 + ToInt(SubSeq(t, 4, 5))) * 60
     + ToInt(SubSeq(t, 7, 8))) * 1000 + ToInt(SubSeq(t, 10, 12))

\* C1: a failure raised by a parser in any stage, the first attempt included,
\* counts as a non-match and the chain goes on with the next stage: no
\* conversion ends on a parser that raised before the fallback loop.
C1_RaiseGoesOn ==
    (Ended /\ trace # <<>> /\ Final.outcome = "raised")
        => Final.stage \in {"fallback", "last"}

\* C2: when the conversion of a file with a supported extension fails after
\* the fallback loop ran, nothing that a rejected attempt wrote is left at the
\* output path.
C2_NoRejectedOutputRemains ==
    (Ended /\ ret = FALSE /\ ext \in Supported /\ ~same /\ FallbackRuns # <<>>)
        => ~out.exists

\* C3, as stated: whenever the conversion of a .srt input succeeds, the output
\* file holds the text of the input file.
C3_SrtPassthrough ==
    (Ended /\ ret = TRUE /\ ext = ".srt") => out = File(inp.data)

\* C3, amended: whenever the conversion of a .srt input that is_srt_valid
\* accepts succeeds, the output file holds the text of the input file and no
\* parser ran; a successful conversion of a .srt input whose output differs
\* from the input is that of an input is_srt_valid rejects, rewritten by a
\* parser of the later stages.
C3_ValidSrtPassthrough ==
    (Ended /\ ret = TRUE /\ ext = ".srt")
        => IF is_srt_valid(File(inp.data))
           THEN out = File(inp.data) /\ Len(trace) = 1 /\ Final.conv = "copy"
           ELSE Len(trace) > 1 /\ Final.conv # "copy" /\ out = Written(doc)

C3_Witness ==
    /\ Ended /\ ret = TRUE /\ ext = ".srt"
    /\ is_srt_valid(File(inp.data))
    /\ out = File(inp.data)
    /\ Final.conv = "copy"

\* C4: for an input file that exists and whose extension is not supported,
\* the conversion runs no parser, leaves the output path as it was, and
\* returns False.
C4_UnsupportedExtension ==
    (inp.exists /\ ext \notin Supported)
        => /\ trace = <<>> /\ doc = <<>>
           /\ out = NoFile /\ ~temp
           /\ pc \in {"begin", "first", "done"}
           /\ Ended => ret = FALSE

C4_Witness ==
    Ended /\ inp.exists /\ ext = ".mov" /\ ret = FALSE /\ inp.data # ""

\* C5: the fallback loop tries TXT, VTT, SBV, RTF in that order without the
\* parser of the file's own extension; no stage runs after one whose output
\* was accepted, which ends the conversion with True; and the loop is left
\* for the last stage only after all of them were tried.
C5_FallbackOrder ==
    /\ Len(FallbackRuns) <= Len(OthersInOrder)
    /\ \A k \in 1..Len(FallbackRuns) : FallbackRuns[k].conv = OthersInOrder[k]
    /\ \A k \in 1..(Len(trace) - 1) : trace[k].outcome # "accepted"
    /\ (trace # <<>> /\ Final.outcome = "accepted") => Ended /\ ret = TRUE
    /\ (pc = "last" \/ (trace # <<>> /\ Final.stage = "last"))
           => Len(FallbackRuns) = Len(OthersInOrder)

C5_Witness ==
    /\ Ended /\ ret = TRUE
    /\ Len(FallbackRuns) = 3
    /\ FallbackRuns[1].outcome # "accepted"
    /\ FallbackRuns[2].outcome # "accepted"
    /\ Final = FallbackRuns[3]
    /\ Final.outcome = "accepted"

\* C6: whenever the conversion returns True, whichever stage produced the
\* output, is_srt_valid accepts the output file as it is then.
C6_TrueIsValidated ==
    (Ended /\ ret = TRUE) => is_srt_valid(out)

C6_Witness ==
    /\ Ended /\ ret = TRUE
    /\ Final.stage = "last"
    /\ Len(doc) > 1
    /\ out = Written(doc)

\* the lines of the trimmed text of file f
TrimmedLines(f) == Split(Strip(f.data), {"\n"})

\* C7: is_srt_valid returns True exactly when the file can be read, its
\* trimmed text is not empty and has at least three lines, one of which
\* holds "-->" and one of which is, trimmed, nothing but digits, in any order
\* and at any distance.
C7_Validator ==
    pc = "returned"
        => (result <=>
               /\ out.exists
               /\ Strip(out.data) # ""
               /\ Len(TrimmedLines(out)) >= 3
               /\ \E i \in 1..Len(TrimmedLines(out)) :
                      \E j \in 1..Len(TrimmedLines(out)) :
                          /\ Contains(TrimmedLines(out)[i], "-->")
                          /\ CanInt(Strip(TrimmedLines(out)[j])))

C7_Witness ==
    /\ pc = "returned" /\ result
    /\ out.data = "-->\na\n\n 12 "

\* C8: in every document a parser writes, the k-th entry carries the index
\* k, however many timestamps without text came before it.
C8_ContiguousIndices ==
    /\ \A k \in 1..Len(doc) : doc[k].n = IntToStr(k)
    /\ doc # <<>> => out = Written(doc)

C8_Witness ==
    /\ Ended /\ ret = TRUE
    /\ Final.conv = "sbv"
    /\ Count(inp.data, ",") = 3
    /\ Len(doc) = 2 /\ doc[2].n = "2"

\* C9: in every document the conversion returns True for, the start of each
\* entry is not after its end (compared where both are canonical).
C9_StartBeforeEnd ==
    (Ended /\ ret = TRUE)
        => \A k \in 1..Len(doc) :
               (Canonical(doc[k].start) /\ Canonical(doc[k].end))
                   => Millis(doc[k].start) <= Millis(doc[k].end)

\* C10: every timestamp a parser writes to the output file is canonical,
\* HH:MM:SS,mmm with widths two, two, two and three.
C10_CanonicalStamps ==
    \A k \in 1..Len(doc) : Canonical(doc[k].start) /\ Canonical(doc[k].end)


----------------------------------------------------------------------------
(* normalize_timestamp on its own: applied to a token, then to its result. *)

\* digit groups per token
MaxGroups == 4

\* the digit groups and the separators the tokens are made of
Groups == {"0", "5", "07", "59"}

Separators == {":", ",", "."}

\* the tokens of 1..n groups
RECURSIVE Tokens(_)
Tokens(n) ==
    IF n = 1 THEN Groups
    ELSE Tokens(n - 1)
         \cup {t \o c \o g : t \in Tokens(n - 1), c \in Separators, g \in Groups}

InitN ==
    /\ inp \in {TextInput(t) : t \in Tokens(MaxGroups)}
    /\ pc = "token"
    /\ trace = <<>>
    /\ out = NoFile
    /\ result = FALSE
    /\ ext = ".txt"
    /\ same = FALSE
    /\ temp = FALSE
    /\ ret = "none"
    /\ idx = 0
    /\ doc = <<>>
    /\ batch = NoBatch

\* what a call of normalize_timestamp on timestamp leaves: the value it
\* returned is added to the history, or the ValueError ends the run
NormalizeCalled(r, next) ==
    IF r.ok THEN trace' = Append(trace, r.s) /\ pc' = next
    ELSE trace' = trace /\ pc' = "raised"

\* normalize_timestamp on the token
Normalize ==
    /\ pc = "token"
    /\ NormalizeCalled(normalize_timestamp(inp.data), "once")
    /\ UNCHANGED <<batch, ext, inp, same, out, temp, result, ret, idx, doc>>

\* normalize_timestamp on the value it returned
Renormalize ==
    /\ pc = "once"
    /\ NormalizeCalled(normalize_timestamp(trace[1]), "twice")
    /\ UNCHANGED <<batch, ext, inp, same, out, temp, result, ret, idx, doc>>

NextN == Normalize \/ Renormalize

SpecN == InitN /\ [][NextN]_vars

\* the largest number of digit groups normalize_timestamp interprets
RecognizedGroups == 4

\* the token has a recognized shape: one to four digit groups
Recognized(t) == Len(Split(t, {":", ",", "."})) <= RecognizedGroups

\* C11: normalize_timestamp returns a value for every token of one to four
\* digit groups, returns that same value when applied to it again, and
\* returns it as well for the token with "." in place of "," and for the
\* token with a zero before its first group.
C11_Idempotent ==
    Recognized(inp.data) =>
        /\ pc # "raised"
        /\ pc = "twice" => trace[2] = trace[1]
        /\ pc = "once" =>
               /\ normalize_timestamp(Replace(inp.data, ",", ".")) = Norm(TRUE, trace[1])
               /\ normalize_timestamp("0" \o inp.data) = Norm(TRUE, trace[1])

C11_Witness ==
    /\ pc = "twice"
    /\ inp.data = "5:07:59.5"
    /\ trace = <<"05:07:59,500", "05:07:59,500">>

----------------------------------------------------------------------------
(* convert_txt_to_srt on its own: a line with a start stamp and no end     *)
(* stamp, and a line of text after it.                                     *)

StartHours == {"00", "1", "23"}

StartMinutes == {"00", "59", "75"}

StartSeconds == {"00", "54", "55", "58", "59", "70"}

\* the digits after the seconds, with their separator
StartFractions == {"", ".5", ",250", ":7", "."}

\* stamps that end in a separator, or hold a group without digits
Truncated == {"1:", "1:30:", "1::", "1:2:3:", "1:2:3::4", "5,", "5..5"}

StartLines ==
    {s \o f : s \in StartSeconds, f \in StartFractions}
    \cup {m \o ":" \o s \o f : m \in StartMinutes, s \in StartSeconds, f \in StartFractions}
    \cup {h \o ":" \o m \o ":" \o s \o f :
              h \in StartHours, m \in StartMinutes, s \in StartSeconds,
              f \in StartFractions}
    \cup Truncated

InitT ==
    /\ inp \in {TextInput(line \o "\nHi") : line \in StartLines}
    /\ pc = "txt"
    /\ out = NoFile
    /\ doc = <<>>
    /\ batch = NoBatch
    /\ result = FALSE
    /\ ext = ".txt"
    /\ same = FALSE
    /\ temp = FALSE
    /\ ret = "none"
    /\ idx = 0
    /\ trace = <<>>

\* what a call of convert_txt_to_srt leaves, o being what it did
TxtCalled(o) ==
    /\ out' = After(o)
    /\ doc' = o.entries
    /\ result' = (o.st = "ok")
    /\ pc' = IF o.st = "raise" THEN "raised" ELSE "parsed"

ParseTxt ==
    /\ pc = "txt"
    /\ TxtCalled(convert_txt_to_srt(inp.data))
    /\ UNCHANGED <<batch, ext, inp, same, temp, ret, idx, trace>>

NextT == ParseTxt

SpecT == InitT /\ [][NextT]_vars

\* the first line of the input
FirstLine == ReadLines(inp.data)[1]

\* the fields of a timestamp written as hours:minutes:seconds,milliseconds
Fields(t) == Split(t, {":", ","})

\* the milliseconds such a timestamp stands for
Linear(t) ==
    ((ToInt(Fields(t)[1]) * 60 + ToInt(Fields(t)[2])) * 60 + ToInt(Fields(t)[3])) * 1000
    + ToInt(Fields(t)[4])

\* minutes and seconds below 60
InRange(t) == ToInt(Fields(t)[2]) < 60 /\ ToInt(Fields(t)[3]) < 60

\* C12: when the TXT parser has read a line that holds a start stamp and no
\* end stamp, the entry starts at the normalised stamp and ends exactly five
\* seconds later in linear time, with the same milliseconds, and with minutes
\* and seconds below 60 when those of the start are.
C12_DefaultEnd ==
    pc = "parsed" =>
        /\ Len(doc) = 1
        /\ doc[1].start = normalize_timestamp(FirstLine).s
        /\ Len(Fields(doc[1].start)) = 4 /\ Len(Fields(doc[1].end)) = 4
        /\ Linear(doc[1].end) = Linear(doc[1].start) + 5000
        /\ Fields(doc[1].end)[4] = Fields(doc[1].start)[4]
        /\ InRange(doc[1].start) => InRange(doc[1].end)

C12_Witness ==
    /\ pc = "parsed"
    /\ FirstLine = "00:59:58"
    /\ doc[1].start = "00:59:58,000"
    /\ doc[1].end = "01:00:03,000"

\* the words of an entry's text
WordCount(e) == Len(Words(Join(e.text, " ")))

\* C13: in a document the long-text segmenter wrote, the first entry starts
\* at 0, every entry ends max(2 s, words / 2.5 per second) after its start,
\* and every later entry starts 250 ms after the end of the entry before it.
C13_SegmentTimes ==
    (trace # <<>> /\ Final.conv = "long" /\ doc # <<>>) =>
        /\ doc[1].start = "00:00:00,000"
        /\ \A k \in 1..Len(doc) :
               Linear(doc[k].end)
                   = Linear(doc[k].start)
                     + Max(MinDurationMs, (WordCount(doc[k]) * 10000) \div WordsPerSecondX10)
        /\ \A k \in 2..Len(doc) : Linear(doc[k].start) = Linear(doc[k - 1].end) + GapMs

----------------------------------------------------------------------------
(* batch_convert_captions: the loop over the files of the input directory. *)
(* os.listdir gives the files in any order.  A file is its name, stem and  *)
(* extension, and what convert_to_srt does on it: "valid", it returns True *)
(* and leaves an output file that is_srt_valid accepts; "rejected", it     *)
(* returns False and leaves what the last parser wrote; "nothing", it      *)
(* returns False and writes nothing.  The success directory holds, for     *)
(* each file name in it, the input file it was made from.                  *)

\* files per input directory
MaxFiles == 3

BatchStems == {"a", "b", ".h"}

BatchExtensions == {".txt", ".vtt", ".srt", ".mov"}

ConversionOutcomes == {"valid", "rejected", "nothing"}

supported_extensions == {".rtf", ".txt", ".vtt", ".xml", ".sbv", ".srt"}

FileName(f) == f.stem \o f.ext

\* the files an input directory can hold
DirFiles ==
    {[stem |-> s, ext |-> e, conversion |-> c] :
         s \in BatchStems, e \in BatchExtensions, c \in ConversionOutcomes}

\* the directories of n files at most, no two of the same name
RECURSIVE Dirs(_)
Dirs(n) ==
    IF n = 0 THEN {{}}
    ELSE Dirs(n - 1)
         \cup UNION {{d \cup {f} : f \in {g \in DirFiles :
                                               \A h \in d : FileName(h) # FileName(g)}} :
                     d \in Dirs(n - 1)}

InitB ==
    /\ batch \in {[NoBatch EXCEPT !.todo = d] : d \in Dirs(MaxFiles) \ {{}}}
    /\ pc = "batch"
    /\ inp = Missing
    /\ ext = ".srt"
    /\ same = FALSE
    /\ out = NoFile
    /\ temp = FALSE
    /\ result = FALSE
    /\ ret = "none"
    /\ idx = 0
    /\ trace = <<>>
    /\ doc = <<>>

\* the directory dir after the file name was written in it, from input from
Put(dir, name, from) ==
    {e \in dir : e.name # name} \cup {[name |-> name, from |-> from]}

\* os.remove(name), when the file exists
Removed(dir, name) == {e \in dir : e.name # name}

\* lines 55-56 and 64-66
Skipped(b) == [b EXCEPT !.skipped = @ + 1]

\* lines 70-74 and 86-87: the file output of the success directory is
\* written from input name
Succeeded(b, name, output) ==
    [b EXCEPT !.success = Put(@, output, name),
              !.made = @ \cup {[input |-> name, output |-> output]},
              !.successful = @ + 1]

\* lines 89-95
Failed(b, name, output) ==
    [b EXCEPT !.success = Removed(@, output),
              !.problem = @ \cup {name},
              !.problematic = @ + 1]

\* lines 46-101: the turn of the loop for file f
Turn(b, f) ==
    IF StartsAt(FileName(f), 1, ".") THEN Skipped(b)
    ELSE IF f.ext \notin supported_extensions THEN Skipped(b)
    ELSE IF f.ext = ".srt" THEN Succeeded(b, FileName(f), FileName(f))
    ELSE IF f.conversion = "valid" THEN Succeeded(b, FileName(f), f.stem \o ".srt")
    ELSE Failed(b, FileName(f), f.stem \o ".srt")

Process ==
    /\ pc = "batch"
    /\ \E f \in batch.todo : batch' = [Turn(batch, f) EXCEPT !.todo = @ \ {f}]
    /\ UNCHANGED <<ext, inp, same, out, temp, pc, result, ret, idx, trace, doc>>

NextB == Process

SpecB == InitB /\ [][NextB]_vars

\* C14: in a batch run, the file made in the success directory for an input
\* file stays there as made from it, whatever other files are processed
\* afterwards: no two input files are written to the same output file.
C14_OutputsKept ==
    \A m \in batch.made : [name |-> m.output, from |-> m.input] \in batch.success

\* C15: every entry of a document a parser or the long-text segmenter wrote
\* has at least one line of text, and none of its lines of text is empty.
C15_TextInEveryEntry ==
    \A k \in 1..Len(doc) :
        /\ doc[k].text # <<>>
        /\ \A j \in 1..Len(doc[k].text) : doc[k].text[j] # ""

\* the line holds a timestamp pair
IsPair(line) == Found(ReSearch(PairPattern, line))

\* the lines with a timestamp pair that a line of text follows
PairsWithText(lines) ==
    {i \in 1..(Len(lines) - 1) :
         /\ IsPair(Strip(lines[i]))
         /\ Strip(lines[i + 1]) # ""
         /\ ~IsPair(lines[i + 1])}

\* C16: the document the timestamp-pair variant writes has one entry for
\* every line with a timestamp pair that a line of text follows, whatever
\* the line before it is.
C16_EveryPairOpens ==
    (trace # <<>> /\ Final.conv = "special" /\ Final.outcome # "raised")
        => Len(doc) = Cardinality(PairsWithText(ReadLines(inp.data)))

\* C17: the TXT parser completes every document whose first line its
\* detection patterns take for a time: normalising the stamp never raises,
\* also for a stamp that ends in a separator with no digits after it.
C17_TxtCompletes == pc # "raised"

\* the attempts of one conversion that ran the timestamp-pair variant
SpecialAttempts == {k \in 1..Len(trace) : trace[k].conv = "special"}

\* C18: one conversion runs the timestamp-pair variant at most once: after
\* the sniff of the first 1000 bytes has run it, the attempt that follows a
\* failed first conversion does not run it again.
C18_SpecialOnce == Cardinality(SpecialAttempts) <= 1

\* C19: the scratch file of the RTF parser does not outlive the attempt
\* that wrote it, whether the attempt returns a result or the TXT parser
\* it hands the cleaned text to raises.
C19_NoScratchLeft == ~temp
====
